---- MODULE Spec2Model ----
(***************************************************************************)
(* Model of the music release tracker cron job (music_tracker_cron.py and  *)
(* melon_scraper.py): one process per run that loads the artist list and   *)
(* the ledger of tracked releases, polls Spotify, YouTube and Melon for    *)
(* every artist, sends the new releases to the Discord webhook, records    *)
(* them in the ledger, prunes old entries and saves the ledger file.       *)
(*                                                                         *)
(* Time is counted in days.  A timestamp string is a record [fmt, t]: fmt  *)
(* is the shape of the ISO string ("utc": with a +00:00 offset, as run()   *)
(* writes it; "zulu": with a Z suffix; "naive": without an offset;         *)
(* "empty": '' or no 'timestamp' field; "bad": not an ISO date) and t the  *)
(* day it denotes.                                                         *)
(***************************************************************************)
EXTENDS Integers, Sequences, FiniteSets, TLC

\* ------------------------------------------------------------------ bounds
MaxItems == 1         \* items in one upstream response
MaxRuns == 2          \* runs of the cron job
MaxInitEntries == 1   \* entries of the ledger file before the first run
MaxPayload == 3       \* items in the payload put to one adapter on its own
MaxNow == 5           \* seconds the clock of the token cache runs
MaxTokens == 2        \* tokens the token endpoint issues
MaxCleanups == 2      \* calls of cleanup_old_tracked_releases on one ledger

\* ------------------------------------------------------- program constants
Retention == 30       \* run(): cleanup_old_tracked_releases(days=30)

\* Source identifiers (album id, video id, song number): one per platform, so
\* that the ledger ranges over three keys.
Ids == {1}

\* The day of the first run: late enough for the file to hold expired entries.
Now0 == Retention + 1
\* Days between two runs: at once, or after the retention window has passed.
Gaps == {0, Retention + 1}

EmptyMap == [k \in {} |-> 0]

\* f"spotify_{album_id}", f"youtube_{video_id}", f"melon_{song_no}"
TrackKey(prefix, id) == <<prefix, id>>

Keys == {TrackKey(p, i) : p \in {"spotify", "youtube", "melon"}, i \in Ids}

\* The 'platform' field of the releases an adapter builds under a key prefix.
PlatformOf(key) ==
    CASE key[1] = "spotify" -> "Spotify"
      [] key[1] = "youtube" -> "YouTube"
      [] key[1] = "melon" -> "Melon"

\* artists.json: A has a Spotify id and two YouTube channels, B a Spotify id
\* and a Melon page; an absent identifier skips the platform.
ArtistList ==
    << [name |-> "A", spotify_id |-> TRUE, youtube_channel_id |-> <<"c1", "c2">>,
        melon_url |-> FALSE],
       [name |-> "B", spotify_id |-> TRUE, youtube_channel_id |-> <<>>,
        melon_url |-> TRUE] >>

ArtistFiles == {"missing", "corrupt", "empty", "list"}

\* ------------------------------------------------------- upstream payloads
\* One item of a response: its source id, whether its date passes the
\* adapter's recency test, and whether it has the fields the adapter reads.
Item == [id : Ids, recent : BOOLEAN, wf : BOOLEAN]

\* The YouTube search is asked for publishedAfter: its items are all recent.
YouTubeItem == {it \in Item : it.recent}

ItemLists(items) == UNION {[1..n -> items] : n \in 0..MaxItems}

\* An upstream response: status 200 with a list of items, or a failure (a
\* refusing status, or "exception" for a request that raises).
Responses(items, statuses) ==
    {[status |-> "200", items |-> it] : it \in ItemLists(items)}
        \cup {[status |-> st, items |-> <<>>] : st \in statuses}

SpotifyResponses == Responses(Item, {"429", "500", "exception"})
YouTubeResponses == Responses(YouTubeItem, {"403", "500", "exception"})
MelonResponses == Responses(Item, {"500", "exception"})

Release(platform, artist, key) ==
    [platform |-> platform, artist |-> artist, track_key |-> key]

ReleaseKeys(releases) == {releases[i].track_key : i \in 1..Len(releases)}

\* ------------------------------------------------------------- timestamps
Stamp(fmt, t) == [fmt |-> fmt, t |-> t]

\* datetime.now(timezone.utc).isoformat()
UtcIsoNow(now) == Stamp("utc", now)

\* Timestamps of the entries the ledger file may hold before the first run.
\* The file is an input: cleanup_old_tracked_releases provides for stamps that
\* run() never writes (a Z suffix, no stamp, no offset), so entries of other
\* writers are expected in it.  Day 0 is past the retention window at the first
\* run, day 2 is within it.
InitStamps ==
    {Stamp("utc", 0), Stamp("naive", 0), Stamp("naive", 2), Stamp("empty", 0)}

VARIABLES
    artistsFile,       \* artists.json
    file,              \* tracked_releases.json: [status, data]
    webhook,           \* DISCORD_WEBHOOK_URL is set
    clock,             \* the current day
    runs,              \* runs started so far
    pc,                \* where the running process is
    fault,             \* the exception that ended the run in main()
    artists,           \* self.artists
    tracked_releases,  \* self.tracked_releases
    spotify_token,     \* self.spotify_token is set
    idx,               \* index of the artist being checked
    new_releases,      \* the releases found by check_all_releases
    sent,              \* the releases submitted to the webhook in this run
    failures,          \* how many of these submissions were rejected or raised
    loadResult,        \* what load_tracked_releases found in this run
    fileAtStart,       \* the ledger file when this run started
    known,             \* keys seen in the ledger at a polling start, not evicted since
    announced,         \* keys submitted to the webhook in earlier runs, not evicted since
    evicted,           \* keys removed by cleanup in this run
    persistedAt,       \* key -> day of the record step whose entry was saved
    offered,           \* keys the adapters' upstream data carried in this run
    prev,              \* the previous run, when it returned just before this one
    polled,            \* per artist checked, what each adapter made of its payload
    probe,             \* one payload put to one adapter, and what came back
    spotify_token_expiry,  \* self.spotify_token_expiry, in seconds
    nowSec,            \* datetime.now(), in seconds
    tokenLog,          \* the calls of get_spotify_token so far
    cleanupProbe       \* a ledger put to cleanup_old_tracked_releases, call after call

vars == <<artistsFile, file, webhook, clock, runs, pc, fault, artists,
          tracked_releases, spotify_token, idx, new_releases, sent, failures,
          loadResult, fileAtStart, known, announced, evicted, persistedAt, offered,
          prev, polled, probe, spotify_token_expiry, nowSec, tokenLog, cleanupProbe>>

\* What no step of a run changes: the configuration, and the variables that
\* only the specifications of single functions (further down) move.
env == <<artistsFile, webhook, polled, probe, spotify_token_expiry, nowSec, tokenLog,
        cleanupProbe>>
hist == <<known, announced, evicted, persistedAt>>
runinfo == <<offered, prev>>

Stopped == {"idle", "done", "fatal", "crashed"}
Running == {"load", "spotify", "youtube", "melon", "dispatch", "record",
            "cleanup", "save", "save_write"}

\* ------------------------------------------------------------ ledger file
FileOk(data) == [status |-> "ok", data |-> data]
FileMissing == [status |-> "missing", data |-> EmptyMap]
FileCorrupt == [status |-> "corrupt", data |-> EmptyMap]

InitEntry(key, ts) ==
    [artist |-> "A", platform |-> PlatformOf(key), timestamp |-> ts]

InitLedgers ==
    UNION {{[k \in S |-> InitEntry(k, st[k])] : st \in [S -> InitStamps]} :
           S \in {T \in SUBSET Keys : Cardinality(T) <= MaxInitEntries}}

InitFiles == {FileMissing, FileCorrupt} \cup {FileOk(d) : d \in InitLedgers}

NoPrev == [idem |-> FALSE, offered |-> {}, evicted |-> {}]

NoProbe == [adapter |-> "none", items |-> <<>>, out |-> <<>>, done |-> FALSE]

\* No call of get_spotify_token yet: __init__ leaves token and expiry None.
NoTokenLog ==
    [kind |-> "none yet", at |-> 0, had |-> FALSE, due |-> 0, requested |-> FALSE,
     value |-> 0, serial |-> 0, fetchedAt |-> 0, expires_in |-> 0]

NoCleanupProbe ==
    [initial |-> EmptyMap, ledger |-> EmptyMap, day |-> 0, calls |-> 0,
     raised |-> FALSE]

\* The variables of the single-function specifications at rest.
AtRest ==
    /\ polled = <<>>
    /\ probe = NoProbe
    /\ spotify_token_expiry = 0
    /\ nowSec = 0
    /\ tokenLog = NoTokenLog
    /\ cleanupProbe = NoCleanupProbe

Init ==
    /\ artistsFile \in ArtistFiles
    /\ file \in InitFiles
    /\ webhook \in BOOLEAN
    /\ clock = Now0
    /\ runs = 0
    /\ pc = "idle"
    /\ fault = "none"
    /\ artists = <<>>
    /\ tracked_releases = EmptyMap
    /\ spotify_token = FALSE
    /\ idx = 0
    /\ new_releases = <<>>
    /\ sent = <<>>
    /\ failures = 0
    /\ loadResult = "none"
    /\ fileAtStart = file
    /\ known = {}
    /\ announced = {}
    /\ evicted = {}
    /\ persistedAt = EmptyMap
    /\ offered = {}
    /\ prev = NoPrev
    /\ AtRest

SentKeys == ReleaseKeys(sent)

\* A new process: main() builds MusicTrackerCron(), whose __init__ sets the
\* fields; gap days have passed since the last run, about which p is kept.
Start(gap, p) ==
    /\ runs < MaxRuns
    /\ runs' = runs + 1
    /\ clock' = IF runs = 0 THEN clock ELSE clock + gap
    /\ pc' = "load"
    /\ fault' = "none"
    /\ artists' = <<>>
    /\ tracked_releases' = EmptyMap
    /\ spotify_token' = FALSE
    /\ idx' = 0
    /\ new_releases' = <<>>
    /\ sent' = <<>>
    /\ failures' = 0
    /\ loadResult' = "none"
    /\ fileAtStart' = file
    /\ announced' = announced \cup SentKeys
    /\ evicted' = {}
    /\ offered' = {}
    /\ prev' = p
    /\ UNCHANGED <<env, file, known, persistedAt>>

\* The external timer starts the job, whatever became of the last run.
StartRun(gap) ==
    /\ pc \in Stopped
    /\ Start(gap, NoPrev)

\* The job is started again as soon as the last run has returned.
Rerun ==
    /\ pc \in {"idle", "done"}
    /\ Start(0, IF pc = "done"
                THEN [idem |-> TRUE, offered |-> offered, evicted |-> evicted]
                ELSE NoPrev)

\* A list of artists taken when the file gives none.
LoadArtists_Default(af) == ArtistList

\* load_artists: a missing file gives [], a corrupt one raises.
LoadArtists(af) ==
    IF af = "list" THEN ArtistList ELSE <<>>

\* load_tracked_releases: a missing file gives {}, a corrupt one raises.
LoadTrackedReleases(f) ==
    IF f.status = "ok" THEN f.data ELSE EmptyMap

\* A corrupt file read like a missing one.
LoadRaises_Never(f) == FALSE

\* A missing file raising like a corrupt one.
LoadRaises_MissingToo(f) == f.status \in {"corrupt", "missing"}

LoadRaises(f) == f.status = "corrupt"

\* run(): load_artists, load_tracked_releases, the `if not self.artists` return.
Load ==
    /\ pc = "load"
    /\ IF artistsFile = "corrupt"
       THEN /\ pc' = "fatal"
            /\ fault' = "load_artists"
            /\ UNCHANGED <<artists, tracked_releases, loadResult, idx, known>>
       ELSE /\ artists' = LoadArtists(artistsFile)
            /\ loadResult' = file.status
            /\ IF LoadRaises(file)
               THEN /\ pc' = "fatal"
                    /\ fault' = "load_tracked_releases"
                    /\ UNCHANGED <<tracked_releases, idx, known>>
               ELSE /\ tracked_releases' = LoadTrackedReleases(file)
                    /\ fault' = "none"
                    /\ IF artists' = <<>>
                       THEN /\ pc' = "done"
                            /\ UNCHANGED <<idx, known>>
                       ELSE /\ pc' = "spotify"
                            /\ idx' = 1
                            /\ known' = known \cup DOMAIN tracked_releases'
    /\ UNCHANGED <<env, file, clock, runs, spotify_token, new_releases, sent, failures,
                   fileAtStart, announced, evicted, persistedAt, runinfo>>

\* ---------------------------------------------------------------- Spotify
\* get_spotify_token: the cached token while unexpired ("cached"), else a
\* request that yields a token ("fetched"), yields None (credentials not set,
\* or a status other than 200: "none") or raises out of session.post ("raise").
TokenOutcomes(cached) ==
    (IF cached THEN {"cached"} ELSE {}) \cup {"fetched", "none", "raise"}

\* The `for album in data.get('items', [])` loop from item i on: album['id']
\* of a malformed item raises, and the except around the request ends the loop
\* with the releases found so far.
RECURSIVE SpotifyScan(_, _, _, _)
SpotifyScan(name, items, ledger, i) ==
    IF i > Len(items) THEN <<>>
    ELSE IF ~items[i].wf THEN <<>>
    ELSE LET track_key == TrackKey("spotify", items[i].id)
             rest == SpotifyScan(name, items, ledger, i + 1)
         IN  IF items[i].recent /\ track_key \notin DOMAIN ledger
             THEN <<Release("Spotify", name, track_key)>> \o rest
             ELSE rest

\* check_spotify_releases, given a token outcome that did not raise.
CheckSpotifyReleases(artist, tok, resp, ledger) ==
    IF ~artist.spotify_id THEN <<>>
    ELSE IF tok = "none" THEN <<>>
    ELSE IF resp.status = "200" THEN SpotifyScan(artist.name, resp.items, ledger, 1)
    ELSE <<>>

CheckSpotify ==
    /\ pc = "spotify"
    /\ \E tok \in TokenOutcomes(spotify_token), resp \in SpotifyResponses :
          IF artists[idx].spotify_id /\ tok = "raise"
          THEN /\ pc' = "fatal"
               /\ fault' = "get_spotify_token"
               /\ UNCHANGED <<spotify_token, new_releases, offered>>
          ELSE /\ pc' = "youtube"
               /\ spotify_token' =
                      (spotify_token \/ (artists[idx].spotify_id /\ tok = "fetched"))
               /\ new_releases' = new_releases \o
                      CheckSpotifyReleases(artists[idx], tok, resp, tracked_releases)
               /\ offered' = offered \cup ReleaseKeys(
                      CheckSpotifyReleases(artists[idx], tok, resp, EmptyMap))
               /\ UNCHANGED fault
    /\ UNCHANGED <<env, file, clock, runs, artists, tracked_releases, idx, sent, failures,
                   loadResult, fileAtStart, hist, prev>>

\* ---------------------------------------------------------------- YouTube
\* The `for item in items` loop of one channel from item i on:
\* item['id']['videoId'] of a malformed item raises, and the except inside the
\* channel loop ends this channel with the releases found so far.
RECURSIVE YouTubeScan(_, _, _, _)
YouTubeScan(name, items, ledger, i) ==
    IF i > Len(items) THEN <<>>
    ELSE IF ~items[i].wf THEN <<>>
    ELSE LET track_key == TrackKey("youtube", items[i].id)
             rest == YouTubeScan(name, items, ledger, i + 1)
         IN  IF track_key \notin DOMAIN ledger
             THEN <<Release("YouTube", name, track_key)>> \o rest
             ELSE rest

\* The `for channel_id in channel_ids` loop from channel c on.
RECURSIVE YouTubeChannels(_, _, _, _, _)
YouTubeChannels(name, channels, resps, ledger, c) ==
    IF c > Len(channels) THEN <<>>
    ELSE (IF resps[c].status = "200"
          THEN YouTubeScan(name, resps[c].items, ledger, 1)
          ELSE <<>>)
         \o YouTubeChannels(name, channels, resps, ledger, c + 1)

\* check_youtube_releases; api_key: YOUTUBE_API_KEY is set.
CheckYouTubeReleases(artist, api_key, resps, ledger) ==
    IF artist.youtube_channel_id = <<>> THEN <<>>
    ELSE IF ~api_key THEN <<>>
    ELSE YouTubeChannels(artist.name, artist.youtube_channel_id, resps, ledger, 1)

CheckYouTube ==
    /\ pc = "youtube"
    /\ \E api_key \in BOOLEAN,
          resps \in [1..Len(artists[idx].youtube_channel_id) -> YouTubeResponses] :
          /\ new_releases' = new_releases \o
                 CheckYouTubeReleases(artists[idx], api_key, resps, tracked_releases)
          /\ offered' = offered \cup ReleaseKeys(
                 CheckYouTubeReleases(artists[idx], api_key, resps, EmptyMap))
    /\ pc' = "melon"
    /\ UNCHANGED <<env, file, clock, runs, fault, artists, tracked_releases,
                   spotify_token, idx, sent, failures, loadResult, fileAtStart, hist, prev>>

\* ------------------------------------------------------------------ Melon
MelonSongLimit == 10

Min(a, b) == IF a < b THEN a ELSE b

\* MelonScraper.scrape_artist_songs, the `for song in songs[:10]` loop from
\* song i on: a song that cannot be parsed is skipped, a song dated before
\* yesterday is left out.
RECURSIVE MelonSongs(_, _, _)
MelonSongs(name, songs, i) ==
    IF i > Min(Len(songs), MelonSongLimit) THEN <<>>
    ELSE LET rest == MelonSongs(name, songs, i + 1)
         IN  IF songs[i].wf /\ songs[i].recent
             THEN <<Release("Melon", name, TrackKey("melon", songs[i].id))>> \o rest
             ELSE rest

ScrapeArtistSongs(name, resp) ==
    IF resp.status = "200" THEN MelonSongs(name, resp.items, 1) ELSE <<>>

\* check_melon_releases returning what the scraper found, the ledger ignored.
CheckMelonReleases_Unfiltered(artist, resp, ledger) ==
    IF ~artist.melon_url THEN <<>>
    ELSE ScrapeArtistSongs(artist.name, resp)

\* check_melon_releases: the scraped releases whose key is not tracked.
CheckMelonReleases(artist, resp, ledger) ==
    IF ~artist.melon_url THEN <<>>
    ELSE SelectSeq(ScrapeArtistSongs(artist.name, resp),
                   LAMBDA r : r.track_key \notin DOMAIN ledger)

\* check_all_releases taking the same artist again and again.
CheckMelon_NoAdvance ==
    /\ pc = "melon"
    /\ \E resp \in MelonResponses :
          /\ new_releases' = new_releases \o
                 CheckMelonReleases(artists[idx], resp, tracked_releases)
          /\ offered' = offered \cup ReleaseKeys(
                 CheckMelonReleases(artists[idx], resp, EmptyMap))
    /\ idx' = idx
    /\ pc' = "spotify"
    /\ UNCHANGED <<env, file, clock, runs, fault, artists, tracked_releases,
                   spotify_token, sent, failures, loadResult, fileAtStart, hist, prev>>

\* run() recording, pruning and saving also when nothing new was found.
CheckMelon_AlwaysPersist ==
    /\ pc = "melon"
    /\ \E resp \in MelonResponses :
          /\ new_releases' = new_releases \o
                 CheckMelonReleases(artists[idx], resp, tracked_releases)
          /\ offered' = offered \cup ReleaseKeys(
                 CheckMelonReleases(artists[idx], resp, EmptyMap))
    /\ idx' = idx + 1
    /\ pc' = IF idx < Len(artists) THEN "spotify"
             ELSE IF new_releases' # <<>> THEN "dispatch" ELSE "record"
    /\ UNCHANGED <<env, file, clock, runs, fault, artists, tracked_releases,
                   spotify_token, sent, failures, loadResult, fileAtStart, hist, prev>>

\* run() going on to the webhook as soon as one artist has given a release.
CheckMelon_DispatchEarly ==
    /\ pc = "melon"
    /\ \E resp \in MelonResponses :
          /\ new_releases' = new_releases \o
                 CheckMelonReleases(artists[idx], resp, tracked_releases)
          /\ offered' = offered \cup ReleaseKeys(
                 CheckMelonReleases(artists[idx], resp, EmptyMap))
    /\ idx' = idx + 1
    /\ pc' = IF new_releases' # <<>> THEN "dispatch"
             ELSE IF idx < Len(artists) THEN "spotify" ELSE "done"
    /\ UNCHANGED <<env, file, clock, runs, fault, artists, tracked_releases,
                   spotify_token, sent, failures, loadResult, fileAtStart, hist, prev>>

\* check_melon_releases, then the end of the artist's turn in
\* check_all_releases; after the last artist, run() goes on to the webhook
\* when there is a new release and is done otherwise.
CheckMelon ==
    /\ pc = "melon"
    /\ \E resp \in MelonResponses :
          /\ new_releases' = new_releases \o
                 CheckMelonReleases(artists[idx], resp, tracked_releases)
          /\ offered' = offered \cup ReleaseKeys(
                 CheckMelonReleases(artists[idx], resp, EmptyMap))
    /\ IF idx < Len(artists)
       THEN /\ idx' = idx + 1
            /\ pc' = "spotify"
       ELSE /\ idx' = idx + 1
            /\ pc' = IF new_releases' # <<>> THEN "dispatch" ELSE "done"
    /\ UNCHANGED <<env, file, clock, runs, fault, artists, tracked_releases,
                   spotify_token, sent, failures, loadResult, fileAtStart, hist, prev>>

\* ---------------------------------------------------------------- webhook
\* What the caller can tell of one session.post to the webhook: status 204,
\* another status, or an exception; the last two are only logged.
SubmitOutcomes == {"204", "400", "exception"}

\* send_to_discord_webhook without DISCORD_WEBHOOK_URL: logs and returns.
SendNoWebhook ==
    /\ pc = "dispatch"
    /\ ~webhook
    /\ pc' = "record"
    /\ UNCHANGED <<env, file, clock, runs, fault, artists, tracked_releases,
                   spotify_token, idx, new_releases, sent, failures, loadResult,
                   fileAtStart, hist, runinfo>>

\* The index of the release the `for release in releases` loop is at.
NextToSend == Len(sent) + 1

\* The loop of send_to_discord_webhook left at the first failed submission.
SendOne_StopsOnFailure ==
    /\ pc = "dispatch"
    /\ webhook
    /\ sent' = Append(sent, new_releases[NextToSend])
    /\ \E outcome \in SubmitOutcomes :
          /\ failures' = IF outcome = "204" THEN failures ELSE failures + 1
          /\ pc' = IF outcome = "204" /\ NextToSend < Len(new_releases)
                   THEN "dispatch" ELSE "record"
    /\ UNCHANGED <<env, file, clock, runs, fault, artists, tracked_releases,
                   spotify_token, idx, new_releases, loadResult, fileAtStart,
                   hist, runinfo>>

\* The loop of send_to_discord_webhook marking each release tracked as it is
\* posted.
SendOne_TracksWhenSent ==
    /\ pc = "dispatch"
    /\ webhook
    /\ sent' = Append(sent, new_releases[NextToSend])
    /\ tracked_releases' =
           [k \in DOMAIN tracked_releases \cup {new_releases[NextToSend].track_key} |->
               IF k = new_releases[NextToSend].track_key
               THEN [artist |-> new_releases[NextToSend].artist,
                     platform |-> new_releases[NextToSend].platform,
                     timestamp |-> UtcIsoNow(clock)]
               ELSE tracked_releases[k]]
    /\ \E outcome \in SubmitOutcomes :
          failures' = IF outcome = "204" THEN failures ELSE failures + 1
    /\ pc' = IF NextToSend < Len(new_releases) THEN "dispatch" ELSE "record"
    /\ UNCHANGED <<env, file, clock, runs, fault, artists, spotify_token, idx,
                   new_releases, loadResult, fileAtStart, hist, runinfo>>

\* One turn of the loop of send_to_discord_webhook: the post of the next
\* release, its outcome logged, then the next release or the return.
SendOne ==
    /\ pc = "dispatch"
    /\ webhook
    /\ sent' = Append(sent, new_releases[NextToSend])
    /\ \E outcome \in SubmitOutcomes :
          failures' = IF outcome = "204" THEN failures ELSE failures + 1
    /\ pc' = IF NextToSend < Len(new_releases) THEN "dispatch" ELSE "record"
    /\ UNCHANGED <<env, file, clock, runs, fault, artists, tracked_releases,
                   spotify_token, idx, new_releases, loadResult, fileAtStart,
                   hist, runinfo>>

\* ------------------------------------------------------------ record step
\* The last release of the list that carries the key: its entry is the one
\* the `for release in new_releases` loop leaves.
LastWith(releases, key) ==
    releases[CHOOSE i \in 1..Len(releases) :
                 /\ releases[i].track_key = key
                 /\ \A j \in (i + 1)..Len(releases) : releases[j].track_key # key]

\* The record loop stopping after its first release.
MarkTracked_FirstOnly(ledger, releases, now) ==
    IF releases = <<>> THEN ledger
    ELSE [k \in DOMAIN ledger \cup {releases[1].track_key} |->
             IF k = releases[1].track_key
             THEN [artist |-> releases[1].artist,
                   platform |-> releases[1].platform,
                   timestamp |-> UtcIsoNow(now)]
             ELSE ledger[k]]

\* run(): "Mark as tracked".
MarkTracked(ledger, releases, now) ==
    [k \in DOMAIN ledger \cup ReleaseKeys(releases) |->
        IF k \in ReleaseKeys(releases)
        THEN [artist |-> LastWith(releases, k).artist,
              platform |-> LastWith(releases, k).platform,
              timestamp |-> UtcIsoNow(now)]
        ELSE ledger[k]]

Record ==
    /\ pc = "record"
    /\ tracked_releases' = MarkTracked(tracked_releases, new_releases, clock)
    /\ pc' = "cleanup"
    /\ UNCHANGED <<env, file, clock, runs, fault, artists, spotify_token, idx,
                   new_releases, sent, failures, loadResult, fileAtStart, hist, runinfo>>

\* ---------------------------------------------------------------- cleanup
\* datetime.fromisoformat(timestamp_str.replace('Z', '+00:00')): an aware
\* datetime for a string with an offset or a Z, a naive one for a string
\* without, ValueError for anything else.
FromIsoFormat(ts) ==
    CASE ts.fmt \in {"utc", "zulu"} -> [ok |-> TRUE, aware |-> TRUE, t |-> ts.t]
      [] ts.fmt = "naive" -> [ok |-> TRUE, aware |-> FALSE, t |-> ts.t]
      [] OTHER -> [ok |-> FALSE, aware |-> FALSE, t |-> 0]

\* The comparison with the cutoff turned round.
ToRemove_Flipped(ts, cutoff) ==
    IF ts.fmt = "empty" THEN FALSE
    ELSE IF ~FromIsoFormat(ts).ok THEN FALSE
    ELSE IF FromIsoFormat(ts).aware THEN FALSE
    ELSE FromIsoFormat(ts).t > cutoff

\* The body of the loop of cleanup_old_tracked_releases for one entry: TRUE
\* when its key goes to keys_to_remove.  cutoff is datetime.now() - days, a
\* naive datetime: comparing an aware timestamp with it raises TypeError,
\* which the bare except swallows like the ValueError of a failed parse.
ToRemove(ts, cutoff) ==
    IF ts.fmt = "empty" THEN FALSE
    ELSE IF ~FromIsoFormat(ts).ok THEN FALSE
    ELSE IF FromIsoFormat(ts).aware THEN FALSE
    ELSE FromIsoFormat(ts).t < cutoff

KeysToRemove(ledger, now, days) ==
    {k \in DOMAIN ledger : ToRemove(ledger[k].timestamp, now - days)}

\* cleanup_old_tracked_releases(days)
CleanupOldTrackedReleases(ledger, now, days) ==
    [k \in DOMAIN ledger \ KeysToRemove(ledger, now, days) |-> ledger[k]]

\* run() saving the ledger as recorded, without the prune.
Cleanup_Skipped ==
    /\ pc = "cleanup"
    /\ pc' = "save"
    /\ UNCHANGED <<env, file, clock, runs, fault, artists, tracked_releases,
                   spotify_token, idx, new_releases, sent, failures, loadResult,
                   fileAtStart, hist, runinfo>>

Cleanup ==
    /\ pc = "cleanup"
    /\ tracked_releases' = CleanupOldTrackedReleases(tracked_releases, clock, Retention)
    /\ evicted' = KeysToRemove(tracked_releases, clock, Retention)
    /\ known' = known \ evicted'
    /\ announced' = announced \ evicted'
    /\ pc' = "save"
    /\ UNCHANGED <<env, file, clock, runs, fault, artists, spotify_token, idx,
                   new_releases, sent, failures, loadResult, fileAtStart, persistedAt, runinfo>>

\* ------------------------------------------------------------------- save
\* What open(TRACKED_RELEASES_FILE, 'w') leaves of the file: nothing.
Truncated(f) == FileCorrupt

\* save_tracked_releases, first half: open(..., 'w') truncates the file, or
\* raises and leaves it as it was.
SaveOpen ==
    /\ pc = "save"
    /\ \E ok \in BOOLEAN :
          IF ok
          THEN /\ file' = Truncated(file)
               /\ pc' = "save_write"
               /\ UNCHANGED fault
          ELSE /\ pc' = "fatal"
               /\ fault' = "save_tracked_releases"
               /\ UNCHANGED file
    /\ UNCHANGED <<env, clock, runs, artists, tracked_releases, spotify_token,
                   idx, new_releases, sent, failures, loadResult, fileAtStart, hist, runinfo>>

\* save_tracked_releases, second half: json.dump writes the mapping and the
\* file is closed, or the write raises and leaves a partial document.
SaveWrite ==
    /\ pc = "save_write"
    /\ \E ok \in BOOLEAN :
          IF ok
          THEN /\ file' = FileOk(tracked_releases)
               /\ persistedAt' =
                      [k \in DOMAIN persistedAt \cup ReleaseKeys(new_releases) |->
                          IF k \in ReleaseKeys(new_releases) THEN clock
                          ELSE persistedAt[k]]
               /\ pc' = "done"
               /\ UNCHANGED fault
          ELSE /\ pc' = "fatal"
               /\ fault' = "save_tracked_releases"
               /\ UNCHANGED <<file, persistedAt>>
    /\ UNCHANGED <<env, clock, runs, artists, tracked_releases, spotify_token,
                   idx, new_releases, sent, failures, loadResult, fileAtStart, known,
                   announced, evicted, runinfo>>

\* The process is killed (power loss, job timeout) wherever it is: what it
\* held in memory is gone, what it wrote and what it sent remain.
Crash ==
    /\ pc \in Running
    /\ pc' = "crashed"
    /\ artists' = <<>>
    /\ tracked_releases' = EmptyMap
    /\ spotify_token' = FALSE
    /\ idx' = 0
    /\ new_releases' = <<>>
    /\ failures' = 0
    /\ offered' = {}
    /\ UNCHANGED <<env, file, clock, runs, fault, sent, loadResult, fileAtStart,
                   hist, prev>>

Next ==
    \/ \E gap \in Gaps : StartRun(gap)
    \/ Load
    \/ CheckSpotify
    \/ CheckYouTube
    \/ CheckMelon
    \/ SendNoWebhook
    \/ SendOne
    \/ Record
    \/ Cleanup
    \/ SaveOpen
    \/ SaveWrite
    \/ Crash

Spec == Init /\ [][Next]_vars

\* Runs in immediate succession, each started when the one before has returned.
NextRerun ==
    \/ Rerun
    \/ Load
    \/ CheckSpotify
    \/ CheckYouTube
    \/ CheckMelon
    \/ SendNoWebhook
    \/ SendOne
    \/ Record
    \/ Cleanup
    \/ SaveOpen
    \/ SaveWrite

SpecRerun == Init /\ [][NextRerun]_vars

\* One run of the job, from its start by main() to its return or its exit.
StartOnce ==
    /\ pc = "idle"
    /\ Start(0, NoPrev)

NextOnce ==
    \/ StartOnce
    \/ Load
    \/ CheckSpotify
    \/ CheckYouTube
    \/ CheckMelon
    \/ SendNoWebhook
    \/ SendOne
    \/ Record
    \/ Cleanup
    \/ SaveOpen
    \/ SaveWrite

SpecOnce == Init /\ [][NextOnce]_vars

\* The same run under the scheduling of a single thread of control whose
\* awaited calls all return or fail: the process always takes its next step.
SpecOnceFair == Init /\ [][NextOnce]_vars /\ WF_vars(NextOnce)

\* ------------------------------------------- check_all_releases, by artist
\* The turn of one artist with the Melon releases put first.
ArtistReleases_MelonFirst(artist, tok, sresp, api_key, yresps, mresp, ledger) ==
    CheckMelonReleases(artist, mresp, ledger)
        \o CheckSpotifyReleases(artist, tok, sresp, ledger)
        \o CheckYouTubeReleases(artist, api_key, yresps, ledger)

\* One turn of the `for artist in self.artists` loop of check_all_releases:
\* what the three extend calls add to all_releases.
ArtistReleases(artist, tok, sresp, api_key, yresps, mresp, ledger) ==
    CheckSpotifyReleases(artist, tok, sresp, ledger)
        \o CheckYouTubeReleases(artist, api_key, yresps, ledger)
        \o CheckMelonReleases(artist, mresp, ledger)

\* What each adapter makes of the same payloads with nothing tracked: the
\* records it would return over an empty ledger, YouTube's channel by channel.
AdapterOutputs(artist, tok, sresp, api_key, yresps, mresp) ==
    [spotify |-> CheckSpotifyReleases(artist, tok, sresp, EmptyMap),
     youtube |-> [c \in 1..Len(artist.youtube_channel_id) |->
                     CheckYouTubeReleases(
                         [artist EXCEPT !.youtube_channel_id =
                                            <<artist.youtube_channel_id[c]>>],
                         api_key, <<yresps[c]>>, EmptyMap)],
     melon |-> CheckMelonReleases(artist, mresp, EmptyMap)]

\* The payloads that matter to a turn: where an adapter makes no request (no
\* token, no API key, no channel, no page) one unread payload stands for all.
Unread == [status |-> "500", items |-> <<>>]

\* The failures of a request all end a turn alike: status 500 stands for them.
Read(resps) == {r \in resps : r.status \in {"200", "500"}}

SpotifyResponsesOf(artist, tok) ==
    IF artist.spotify_id /\ tok \in {"cached", "fetched"}
    THEN Read(SpotifyResponses) ELSE {Unread}

YouTubeKeysOf(artist) ==
    IF artist.youtube_channel_id = <<>> THEN {FALSE} ELSE BOOLEAN

YouTubeResponsesOf(artist, api_key) ==
    IF api_key
    THEN [1..Len(artist.youtube_channel_id) -> Read(YouTubeResponses)]
    ELSE {[c \in 1..Len(artist.youtube_channel_id) |-> Unread]}

MelonResponsesOf(artist) ==
    IF artist.melon_url THEN Read(MelonResponses) ELSE {Unread}

\* check_all_releases, one artist per step, with the adapters' outputs kept.
CheckArtist ==
    /\ pc = "spotify"
    /\ \E tok \in TokenOutcomes(spotify_token), api_key \in YouTubeKeysOf(artists[idx]),
          mresp \in MelonResponsesOf(artists[idx]) :
       \E sresp \in SpotifyResponsesOf(artists[idx], tok),
          yresps \in YouTubeResponsesOf(artists[idx], api_key) :
          IF artists[idx].spotify_id /\ tok = "raise"
          THEN /\ pc' = "fatal"
               /\ fault' = "get_spotify_token"
               /\ UNCHANGED <<spotify_token, new_releases, offered, polled, idx>>
          ELSE /\ spotify_token' =
                      (spotify_token \/ (artists[idx].spotify_id /\ tok = "fetched"))
               /\ new_releases' = new_releases \o
                      ArtistReleases(artists[idx], tok, sresp, api_key, yresps, mresp,
                                     tracked_releases)
               /\ offered' = offered \cup ReleaseKeys(
                      ArtistReleases(artists[idx], tok, sresp, api_key, yresps, mresp,
                                     EmptyMap))
               /\ polled' = Append(polled,
                      AdapterOutputs(artists[idx], tok, sresp, api_key, yresps, mresp))
               /\ idx' = idx + 1
               /\ pc' = IF idx < Len(artists) THEN "spotify"
                        ELSE IF new_releases' # <<>> THEN "dispatch" ELSE "done"
               /\ UNCHANGED fault
    /\ UNCHANGED <<artistsFile, webhook, probe, spotify_token_expiry, nowSec, tokenLog,
                   cleanupProbe, file, clock, runs, artists, tracked_releases, sent, failures,
                   loadResult, fileAtStart, hist, prev>>

\* A run up to the end of send_to_discord_webhook.
NextOrder ==
    \/ StartOnce
    \/ Load
    \/ CheckArtist
    \/ SendNoWebhook
    \/ SendOne

SpecOrder == Init /\ [][NextOrder]_vars

\* ------------------------------------------------ one adapter on its own
\* The variables of a run, which the single-function specifications leave
\* as Init sets them.
runExceptToken ==
    <<artistsFile, file, webhook, clock, runs, pc, fault, artists, tracked_releases,
      idx, new_releases, sent, failures, loadResult, fileAtStart, known, announced,
      evicted, persistedAt, offered, prev>>

\* An artist with an identifier for every platform and one YouTube channel.
ProbeArtist ==
    [name |-> "A", spotify_id |-> TRUE, youtube_channel_id |-> <<"c1">>,
     melon_url |-> TRUE]

Adapters == {"spotify", "youtube", "melon"}

Payloads(adapter) ==
    UNION {[1..n -> IF adapter = "youtube" THEN YouTubeItem ELSE Item] :
           n \in 0..MaxPayload}

\* The adapter's call on a status 200 response with these items, with a
\* token or an API key at hand and nothing tracked.
Adapt(adapter, items) ==
    CASE adapter = "spotify" ->
             CheckSpotifyReleases(ProbeArtist, "fetched",
                                  [status |-> "200", items |-> items], EmptyMap)
      [] adapter = "youtube" ->
             CheckYouTubeReleases(ProbeArtist, TRUE,
                                  <<[status |-> "200", items |-> items]>>, EmptyMap)
      [] adapter = "melon" ->
             CheckMelonReleases(ProbeArtist,
                                [status |-> "200", items |-> items], EmptyMap)

\* A process that has not started its run.
RunAtRest ==
    /\ artistsFile = "list"
    /\ file = FileMissing
    /\ webhook = TRUE
    /\ clock = Now0
    /\ runs = 0
    /\ pc = "idle"
    /\ fault = "none"
    /\ artists = <<>>
    /\ tracked_releases = EmptyMap
    /\ spotify_token = FALSE
    /\ idx = 0
    /\ new_releases = <<>>
    /\ sent = <<>>
    /\ failures = 0
    /\ loadResult = "none"
    /\ fileAtStart = file
    /\ known = {}
    /\ announced = {}
    /\ evicted = {}
    /\ persistedAt = EmptyMap
    /\ offered = {}
    /\ prev = NoPrev

InitPayload ==
    /\ RunAtRest
    /\ polled = <<>>
    /\ probe \in {[adapter |-> a, items |-> it, out |-> <<>>, done |-> FALSE] :
                    a \in Adapters, it \in UNION {Payloads(b) : b \in Adapters}}
    /\ probe.items \in Payloads(probe.adapter)
    /\ spotify_token_expiry = 0
    /\ nowSec = 0
    /\ tokenLog = NoTokenLog
    /\ cleanupProbe = NoCleanupProbe

\* The adapter is called on the payload.
ScanPayload ==
    /\ ~probe.done
    /\ probe' = [probe EXCEPT !.out = Adapt(probe.adapter, probe.items),
                              !.done = TRUE]
    /\ UNCHANGED <<runExceptToken, spotify_token, polled, spotify_token_expiry,
                   nowSec, tokenLog, cleanupProbe>>

NextPayload == ScanPayload

SpecPayload == InitPayload /\ [][NextPayload]_vars

\* ------------------------------------------------------ get_spotify_token
\* timedelta(seconds=data['expires_in'] - 300)
ExpiryMargin == 300

\* The lifetimes the token endpoint grants, in seconds: one shorter than the
\* margin, two a little longer.
ExpiresIn == {ExpiryMargin - 1, ExpiryMargin + 2, ExpiryMargin + 3}

\* The expiry set without the margin.
TokenExpiry_NoMargin(t, expires_in) == t + expires_in

\* self.spotify_token_expiry = datetime.now() + timedelta(seconds=expires_in - 300)
TokenExpiry(t, expires_in) == t + expires_in - ExpiryMargin

InitToken ==
    /\ RunAtRest
    /\ AtRest

\* One second passes.
Tick ==
    /\ nowSec < MaxNow
    /\ nowSec' = nowSec + 1
    /\ UNCHANGED <<runExceptToken, spotify_token, polled, probe,
                   spotify_token_expiry, tokenLog, cleanupProbe>>

\* What a call finds before it acts: whether a token is cached, and when the
\* cached token is due, counted from its fetch and its granted lifetime.
Found ==
    [tokenLog EXCEPT !.at = nowSec,
                     !.had = (tokenLog.serial > 0),
                     !.due = tokenLog.fetchedAt + tokenLog.expires_in - ExpiryMargin]

\* One call of get_spotify_token: the cached token while its expiry is ahead;
\* else None without credentials; else a request, which yields a token with
\* its lifetime (status 200), or None (another status), or raises.
GetSpotifyToken ==
    /\ IF spotify_token /\ spotify_token_expiry > nowSec
       THEN /\ tokenLog' = [Found EXCEPT !.kind = "cached", !.requested = FALSE,
                                         !.value = tokenLog.serial]
            /\ UNCHANGED <<spotify_token, spotify_token_expiry>>
       ELSE \E credentials \in BOOLEAN, status \in {"200", "400", "exception"},
               expires_in \in ExpiresIn :
               IF ~credentials
               THEN /\ tokenLog' = [Found EXCEPT !.kind = "none", !.requested = FALSE,
                                                 !.value = 0]
                    /\ UNCHANGED <<spotify_token, spotify_token_expiry>>
               ELSE IF status = "200"
               THEN /\ tokenLog.serial < MaxTokens
                    /\ spotify_token' = TRUE
                    /\ spotify_token_expiry' = TokenExpiry(nowSec, expires_in)
                    /\ tokenLog' = [Found EXCEPT !.kind = "fetched",
                                                 !.requested = TRUE,
                                                 !.value = tokenLog.serial + 1,
                                                 !.serial = tokenLog.serial + 1,
                                                 !.fetchedAt = nowSec,
                                                 !.expires_in = expires_in]
               ELSE /\ tokenLog' = [Found EXCEPT !.kind = "none", !.requested = TRUE,
                                                 !.value = 0]
                    /\ UNCHANGED <<spotify_token, spotify_token_expiry>>
    /\ UNCHANGED <<runExceptToken, polled, probe, nowSec, cleanupProbe>>

NextToken ==
    \/ Tick
    \/ GetSpotifyToken

SpecToken == InitToken /\ [][NextToken]_vars

\* ------------------------------------ cleanup_old_tracked_releases, alone
\* The shapes of the 'timestamp' of an entry, and the days it may denote: day
\* 0 is past the retention window at the first call, day 2 within it.
StampShapes == {"utc", "zulu", "naive", "empty", "bad"}

CleanupStamps == {Stamp(fmt, t) : fmt \in StampShapes, t \in {0, 2}}

CleanupLedgers ==
    UNION {{[k \in S |-> InitEntry(k, st[k])] : st \in [S -> CleanupStamps]} :
           S \in {T \in SUBSET Keys : Cardinality(T) <= MaxInitEntries}}

\* The try block of the loop for a non-empty timestamp string: fromisoformat
\* raises ValueError on a string that is no ISO date, `timestamp < cutoff`
\* raises TypeError for an aware timestamp against the naive cutoff, and
\* otherwise the comparison says whether the key is to be removed.
TryCompare(ts, cutoff) ==
    IF ~FromIsoFormat(ts).ok THEN "ValueError"
    ELSE IF FromIsoFormat(ts).aware THEN "TypeError"
    ELSE IF FromIsoFormat(ts).t < cutoff THEN "remove" ELSE "keep"

\* An `except ValueError:` in the place of the bare except.
Caught_ValueErrorOnly(exc) == exc = "ValueError"

\* `except:` without a class catches whatever the try block raises.
Caught(exc) == TRUE

\* cleanup_old_tracked_releases raises: an entry's try block raises what the
\* except does not catch.
CleanupRaises(ledger, today, days) ==
    \E k \in DOMAIN ledger :
        /\ ledger[k].timestamp.fmt # "empty"
        /\ TryCompare(ledger[k].timestamp, today - days) \in {"ValueError", "TypeError"}
        /\ ~Caught(TryCompare(ledger[k].timestamp, today - days))

InitCleanup ==
    /\ RunAtRest
    /\ polled = <<>>
    /\ probe = NoProbe
    /\ spotify_token_expiry = 0
    /\ nowSec = 0
    /\ tokenLog = NoTokenLog
    /\ cleanupProbe \in {[initial |-> l, ledger |-> l, day |-> Now0, calls |-> 0,
                           raised |-> FALSE] : l \in CleanupLedgers}

\* One more call of cleanup_old_tracked_releases(days=30) on the ledger, at
\* once or after the retention window has passed again: it raises before it
\* deletes anything, or it deletes the keys to remove.
CleanupCall ==
    /\ ~cleanupProbe.raised
    /\ cleanupProbe.calls < MaxCleanups
    /\ \E gap \in Gaps :
          cleanupProbe' =
              IF CleanupRaises(cleanupProbe.ledger, cleanupProbe.day + gap, Retention)
              THEN [cleanupProbe EXCEPT !.day = @ + gap, !.calls = @ + 1,
                                        !.raised = TRUE]
              ELSE [cleanupProbe EXCEPT
                       !.day = @ + gap, !.calls = @ + 1,
                       !.ledger = CleanupOldTrackedReleases(
                                      @, cleanupProbe.day + gap, Retention)]
    /\ UNCHANGED <<runExceptToken, spotify_token, polled, probe,
                   spotify_token_expiry, nowSec, tokenLog>>

NextCleanup == CleanupCall

SpecCleanup == InitCleanup /\ [][NextCleanup]_vars

\* ------------------------------------------------------------------ claims
PollingOver == artists # <<>> /\ idx > Len(artists)

\* C1: no release whose key was in the ledger when a run started polling, and
\* has not been evicted since, is among the releases handed to
\* send_to_discord_webhook, in that run or a later one.
C1_NoDuplicateAlerts ==
    \A i \in 1..Len(new_releases) : new_releases[i].track_key \notin known

\* A second run reaches the webhook although an adapter returned a key that
\* the first run recorded and saved.
C1_Witness ==
    /\ runs = 2
    /\ pc = "dispatch"
    /\ \E k \in offered \cap known : k \in DOMAIN persistedAt

C3_EvictionCorrectness ==
    pc \in {"spotify", "youtube", "melon"}
        => \A k \in DOMAIN persistedAt :
              /\ (clock < persistedAt[k] + Retention) => k \in DOMAIN tracked_releases
              /\ (clock > persistedAt[k] + Retention) => k \notin DOMAIN tracked_releases

\* C4 as stated: when cleanup_old_tracked_releases(30) has returned, no entry
\* of the ledger has a timestamp more than 30 days before now.
C4_CleanupRemovesOld ==
    pc = "save"
        => \A k \in DOMAIN tracked_releases :
              FromIsoFormat(tracked_releases[k].timestamp).ok
                  => clock - FromIsoFormat(tracked_releases[k].timestamp).t <= Retention

\* The timestamp denotes a day less than `days` days before now.
Younger(ts, now, days) == FromIsoFormat(ts).ok /\ now - FromIsoFormat(ts).t < days

\* C5: no entry that cleanup removes is younger than the retention window.
C5_PruneKeepsYoung ==
    \A k \in evicted :
        /\ k \in DOMAIN fileAtStart.data
        /\ ~Younger(fileAtStart.data[k].timestamp, clock, Retention)

\* Cleanup has run over an entry of another writer that is 29 days old, and
\* the entry is still there.
C5_Witness ==
    /\ pc = "save"
    /\ \E k \in DOMAIN tracked_releases :
          /\ tracked_releases[k].timestamp.fmt = "naive"
          /\ Younger(tracked_releases[k].timestamp, clock, Retention)

\* C6 as stated: a run that has loaded its files does not end before every
\* (artist, platform) pair has been polled, whatever fetch failed.
C6_FetchFailureIsolated ==
    (pc \in {"done", "fatal"} /\ artists # <<>> /\ loadResult \in {"ok", "missing"})
        => idx > Len(artists)

\* C7: once send_to_discord_webhook has returned, every new release has been
\* submitted, whatever submissions failed; and when the run has returned, the
\* saved ledger holds an entry of this run for each of them.
C7_SinkFailureIsolated ==
    /\ (webhook /\ pc \in {"record", "cleanup", "save", "save_write", "done"})
           => sent = new_releases
    /\ (pc = "done" /\ new_releases # <<>>)
           => /\ file.status = "ok"
              /\ \A k \in ReleaseKeys(new_releases) :
                    /\ k \in DOMAIN file.data
                    /\ file.data[k].timestamp = UtcIsoNow(clock)

\* A run has returned in which every submission failed, the first as well as
\* the ones made after it.
C7_Witness ==
    /\ pc = "done"
    /\ Len(sent) >= 2
    /\ failures = Len(sent)
    /\ ReleaseKeys(new_releases) \subseteq DOMAIN file.data

\* C8 as stated: no release submitted in this run has a key that an earlier
\* run submitted and that has not been evicted since.
C8_NeverResubmitted ==
    \A i \in 1..Len(sent) : sent[i].track_key \notin announced

\* C9: a run that finds the ledger file corrupt has ended with a fatal error,
\* has polled nothing, submitted nothing and left the file as it was.
C9_CorruptLedgerFatal ==
    loadResult = "corrupt"
        => /\ pc = "fatal"
           /\ fault = "load_tracked_releases"
           /\ idx = 0
           /\ offered = {}
           /\ new_releases = <<>>
           /\ sent = <<>>
           /\ file = fileAtStart

\* A second run has loaded a ledger file that does not parse and has ended
\* fatally on it.
C9_Witness ==
    /\ loadResult = "corrupt"
    /\ pc = "fatal"
    /\ runs = 2

\* C10 as stated: after a crash the ledger file holds the mapping it held
\* when the run started or the mapping the run was saving.
C10_SaveIsAtomic ==
    [][pc' = "crashed"
          => (file' = fileAtStart \/ file' = FileOk(tracked_releases))]_vars

\* The phase of the run that a position of the process belongs to.  The
\* adapters look a record up in the ledger as they build it, so POLLING and
\* FILTERING are the same positions.
Phase(p) ==
    CASE p = "load" -> "LOADING"
      [] p \in {"spotify", "youtube", "melon"} -> "POLLING"
      [] p = "dispatch" -> "DISPATCHING"
      [] p \in {"record", "cleanup", "save", "save_write"} -> "PERSISTING"
      [] p = "done" -> "DONE"
      [] OTHER -> p

C12_NothingNewNothingChanged ==
    (pc = "done" /\ new_releases = <<>>) =>
        /\ sent = <<>>
        /\ evicted = {}
        /\ tracked_releases = LoadTrackedReleases(fileAtStart)
        /\ file = fileAtStart

\* A run has polled both artists, every release the adapters carried was in
\* the ledger, and the ledger still holds an entry that a prune would remove.
C12_Witness ==
    /\ pc = "done"
    /\ PollingOver
    /\ new_releases = <<>>
    /\ offered # {}
    /\ KeysToRemove(tracked_releases, clock, Retention) # {}

\* C13: the submissions of a run are the new releases in their order, each
\* once: never more submissions than releases, the i-th submission is the
\* i-th release, and once the dispatch is over there are as many submissions
\* as releases.
C13_OneSubmissionPerRecord ==
    /\ Len(sent) <= Len(new_releases)
    /\ \A i \in 1..Len(sent) : sent[i] = new_releases[i]
    /\ (Phase(pc) = "PERSISTING" \/ (pc = "done" /\ new_releases # <<>>)) =>
           Len(sent) = Len(new_releases)

\* The records of a sequence whose key is not in the ledger, in their order.
Surviving(records, ledger) ==
    SelectSeq(records, LAMBDA r : r.track_key \notin DOMAIN ledger)

\* The sequences of a sequence, from the i-th on, one after the other.
RECURSIVE Concat(_, _)
Concat(seqs, i) ==
    IF i > Len(seqs) THEN <<>> ELSE seqs[i] \o Concat(seqs, i + 1)

WellFormedRecent(items) ==
    SelectSeq(items, LAMBDA it : it.wf /\ it.recent)

\* C15: whichever the adapter, every well-formed (and recent) item of a
\* response becomes a release, in order, whether a malformed item comes
\* before it or not.
C15_OnlyMalformedSkipped ==
    probe.done =>
        /\ Len(probe.out) = Len(WellFormedRecent(probe.items))
        /\ \A i \in 1..Len(probe.out) :
               probe.out[i].track_key =
                   TrackKey(probe.adapter, WellFormedRecent(probe.items)[i].id)

\* C16: a call of get_spotify_token makes a request only when no token is
\* cached or the cached one is due (its fetch time plus its lifetime less 300
\* seconds has come); the cached token is never returned later than that;
\* and a call made while the cached token is not yet due returns that token
\* and makes no request.
C16_TokenCache ==
    /\ tokenLog.requested => (~tokenLog.had \/ tokenLog.at >= tokenLog.due)
    /\ tokenLog.kind = "cached" =>
           /\ tokenLog.at <= tokenLog.fetchedAt + tokenLog.expires_in - ExpiryMargin
           /\ tokenLog.value = tokenLog.serial
    /\ (tokenLog.kind # "none yet" /\ tokenLog.had /\ tokenLog.at < tokenLog.due) =>
           /\ tokenLog.kind = "cached"
           /\ ~tokenLog.requested
           /\ tokenLog.value = tokenLog.serial

\* A token was fetched when the one before it was due, and a later call has
\* returned it from the cache.
C16_Witness ==
    /\ tokenLog.kind = "cached"
    /\ tokenLog.serial = 2
    /\ tokenLog.at > tokenLog.fetchedAt

\* C17 as stated: with artists.json absent or empty, a run that has loaded has
\* returned without error, has called no adapter and submitted nothing, and
\* the ledger in memory and on disk is the file the run started with.
C17_EmptyConfigNoOp ==
    (artistsFile \in {"missing", "empty"} /\ pc \notin {"idle", "load"}) =>
        /\ pc = "done"
        /\ fault = "none"
        /\ idx = 0
        /\ offered = {}
        /\ new_releases = <<>>
        /\ sent = <<>>
        /\ tracked_releases = LoadTrackedReleases(fileAtStart)
        /\ file = fileAtStart

\* C17, amended: with artists.json absent or empty, a run that has loaded has
\* called no adapter, submitted nothing and left the ledger file alone; it
\* has returned without error with the ledger in memory as loaded, unless the
\* ledger file does not parse, in which case it has ended on the fatal error
\* of the load.
C17_EmptyConfigNoOpUnlessCorrupt ==
    (artistsFile \in {"missing", "empty"} /\ pc \notin {"idle", "load"}) =>
        /\ idx = 0
        /\ offered = {}
        /\ new_releases = <<>>
        /\ sent = <<>>
        /\ file = fileAtStart
        /\ IF fileAtStart.status = "corrupt"
           THEN pc = "fatal" /\ fault = "load_tracked_releases"
           ELSE /\ pc = "done"
                /\ fault = "none"
                /\ tracked_releases = LoadTrackedReleases(fileAtStart)

\* A run without artists.json has returned, over a ledger file with an entry.
C17_Witness ==
    /\ artistsFile = "missing"
    /\ pc = "done"
    /\ file.status = "ok"
    /\ DOMAIN tracked_releases # {}
    /\ file = fileAtStart

\* C18: a run that finds no ledger file does not fail on the load and polls
\* with an empty ledger, so every key the adapters return is among the new
\* releases handed to the dispatch (and submitted, the webhook being set);
\* when the run has returned, each of them is in the ledger file with the
\* time of this run.
C18_FirstRun ==
    loadResult = "missing" =>
        /\ fault # "load_tracked_releases"
        /\ Phase(pc) \in {"POLLING", "DISPATCHING"} =>
               /\ tracked_releases = EmptyMap
               /\ ReleaseKeys(new_releases) = offered
        /\ (pc = "done" /\ PollingOver) =>
               /\ ReleaseKeys(new_releases) = offered
               /\ webhook => sent = new_releases
               /\ \A k \in offered :
                      /\ file.status = "ok"
                      /\ k \in DOMAIN file.data
                      /\ file.data[k].timestamp = UtcIsoNow(clock)

\* A first run without a ledger file has returned after the adapters gave
\* releases under two keys, and the file now exists.
C18_Witness ==
    /\ loadResult = "missing"
    /\ fileAtStart = FileMissing
    /\ pc = "done"
    /\ Cardinality(offered) >= 2
    /\ file.status = "ok"

\* C19: the process comes to the prune only from the record step, which has
\* put every new release into the ledger; it comes to the save only from the
\* prune of that ledger; and the ledger file only changes during the save, of
\* a ledger that holds every new release with the time of this run and
\* nothing that a prune would remove.
C19_RecordPruneSave ==
    [][/\ (pc' = "cleanup" /\ pc # "cleanup") =>
             /\ pc = "record"
             /\ tracked_releases' = MarkTracked(tracked_releases, new_releases, clock)
       /\ (pc' = "save" /\ pc # "save") =>
             /\ pc = "cleanup"
             /\ tracked_releases' =
                    CleanupOldTrackedReleases(tracked_releases, clock, Retention)
       /\ (pc' = "save_write" /\ pc # "save_write") =>
             /\ pc = "save"
             /\ tracked_releases' = tracked_releases
       /\ (file' # file) =>
             /\ pc \in {"save", "save_write"}
             /\ tracked_releases' = tracked_releases
             /\ KeysToRemove(tracked_releases, clock, Retention) = {}
             /\ \A k \in ReleaseKeys(new_releases) :
                    /\ k \in DOMAIN tracked_releases
                    /\ tracked_releases[k].timestamp = UtcIsoNow(clock)]_vars

\* A run has recorded a new release, pruned an expired entry from the ledger
\* and saved the result.
C19_Witness ==
    /\ pc = "done"
    /\ new_releases # <<>>
    /\ evicted # {}
    /\ evicted \cap DOMAIN file.data = {}
    /\ ReleaseKeys(new_releases) \subseteq DOMAIN file.data

\* C20: a run that has started comes to an end: it returns, or it leaves
\* through the fatal exit of main().
C20_Terminates ==
    (pc \in Running) ~> (pc \in {"done", "fatal"})

\* A run has polled, submitted and recorded, and has ended in the fatal exit
\* on a failed save.
C20_Witness ==
    /\ pc = "fatal"
    /\ fault = "save_tracked_releases"
    /\ PollingOver
    /\ sent # <<>>

\* C21: the releases handed to send_to_discord_webhook in one run carry
\* pairwise different keys.
C21_NoDuplicateKeysInRun ==
    \A i, j \in 1..Len(new_releases) :
        i # j => new_releases[i].track_key # new_releases[j].track_key

\* C22: while the process polls and dispatches, and until the record step
\* acts, self.tracked_releases is what load_tracked_releases read from the
\* file the run started with.
C22_LedgerFrozenUntilRecord ==
    (Phase(pc) \in {"POLLING", "DISPATCHING"} \/ pc = "record") =>
        tracked_releases = LoadTrackedReleases(fileAtStart)

\* A run over a ledger with an entry has fetched a Spotify token, polled both
\* artists and posted its new releases, and is about to record them.
C22_Witness ==
    /\ pc = "record"
    /\ spotify_token
    /\ sent # <<>>
    /\ DOMAIN tracked_releases # {}
    /\ ReleaseKeys(new_releases) \cap DOMAIN tracked_releases = {}

====
